---- MODULE Spec2Model ----
(***************************************************************************)
(* Model of the HEIC -> PNG converter component (HeicConverter).           *)
(*                                                                         *)
(* The sources hold three revisions of the component:                      *)
(*   "fallback"  src/src/components/HeicConverter.tsx lines 1-368          *)
(*               (100MB ceiling, heic-convert then heic2any, file loop)    *)
(*   "guarded"   src/src/components/HeicConverter.tsx lines 369-671        *)
(*               (WebAssembly probe, 50MB ceiling, heic2any, file loop)    *)
(*   "basic"     src/unnamed/part_002                                      *)
(*               (heic2any only, Promise.all over the batch)               *)
(* The revision is fixed in the initial state; every action follows the    *)
(* code of that revision.  An async function is cut at its awaits: one     *)
(* action runs from one await to the next.                                 *)
(***************************************************************************)
EXTENDS Integers, Sequences, FiniteSets, TLC

VARIABLES rev, hasWasm, convertedFiles, isConverting, nextUrl, revoked, calls,
          offered

vars == <<rev, hasWasm, convertedFiles, isConverting, nextUrl, revoked, calls, offered>>

----------------------------------------------------------------------------
(* Bounds *)

\* onDrop invocations in one behaviour
MaxCalls == 2
\* files handed to onDrop in one behaviour, over all invocations
MaxFiles == 2

Calls == 1..MaxCalls

Revs == {"fallback", "guarded", "basic"}

----------------------------------------------------------------------------
(* Program constants *)

MaxSizeFallback == 104857600
MaxSizeGuarded == 52428800

----------------------------------------------------------------------------
(* Small sequence helpers *)

Range(s) == {s[k] : k \in 1..Len(s)}

RECURSIVE SeqsUpTo(_, _)
SeqsUpTo(S, n) ==
  IF n = 0 THEN {<<>>}
  ELSE LET shorter == SeqsUpTo(S, n - 1)
       IN  shorter \cup {Append(s, x) : s \in {t \in shorter : Len(t) = n - 1}, x \in S}

RECURSIVE Ascending(_, _)
\* the members of the set S of indices among 1..n, in increasing order
Ascending(S, n) ==
  IF n = 0 THEN <<>>
  ELSE IF n \in S THEN Append(Ascending(S, n - 1), n)
  ELSE Ascending(S, n - 1)

----------------------------------------------------------------------------
(* File names are sequences of characters. *)

Lower(ch) ==
  CASE ch = "H" -> "h"
    [] ch = "E" -> "e"
    [] ch = "I" -> "i"
    [] ch = "C" -> "c"
    [] ch = "F" -> "f"
    [] OTHER -> ch

LowerSeq(s) == [k \in 1..Len(s) |-> Lower(s[k])]

Suffix(s, n) == SubSeq(s, Len(s) - n + 1, Len(s))
DropLast(s, n) == SubSeq(s, 1, Len(s) - n)

EndsWithI(s, ext) == Len(s) >= Len(ext) /\ LowerSeq(Suffix(s, Len(ext))) = ext

DotHeic == <<".", "h", "e", "i", "c">>
DotHeif == <<".", "h", "e", "i", "f">>
DotHei == <<".", "h", "e", "i">>
DotPng == <<".", "p", "n", "g">>

\* ReplaceHeic as "strip .heic, then append .png"
ReplaceHeicAppend(s) == (IF EndsWithI(s, DotHeic) THEN DropLast(s, 5) ELSE s) \o DotPng

\* name.replace(/\.heic$/i, '.png')
ReplaceHeic(s) == IF EndsWithI(s, DotHeic) THEN DropLast(s, 5) \o DotPng ELSE s

\* name.replace(/\.heif$/i, '.png')
ReplaceHeif(s) == IF EndsWithI(s, DotHeif) THEN DropLast(s, 5) \o DotPng ELSE s

\* name.replace(/\.heic?$/i, '.png'): the trailing 'c' is optional
ReplaceHeicOpt(s) ==
  IF EndsWithI(s, DotHeic) THEN DropLast(s, 5) \o DotPng
  ELSE IF EndsWithI(s, DotHei) THEN DropLast(s, 4) \o DotPng
  ELSE s

DeriveName(r, s) ==
  CASE r = "fallback" -> ReplaceHeif(ReplaceHeic(s))
    [] r = "guarded" -> ReplaceHeif(ReplaceHeicOpt(s))
    [] r = "basic" -> ReplaceHeicOpt(s)

----------------------------------------------------------------------------
(* The files a user can drop. *)

NameA == <<"a", ".", "h", "e", "i", "c">>
NameB == <<"b", ".", "H", "E", "I", "F">>
NameC == <<"x", ".", "p", "n", "g", ".", "h", "e", "i", "c">>

\* the first bytes of a HEIC file: box size, 'ftyp', brand 'heic'
HeicHead == <<"0", "0", "0", "s", "f", "t", "y", "p", "h", "e", "i", "c">>
\* the first bytes of a HEIF file: brand 'mif1'
Mif1Head == <<"0", "0", "0", "s", "f", "t", "y", "p", "m", "i", "f", "1">>

Files ==
  { [name |-> NameA, type |-> "image/heic", size |-> 2048, head |-> HeicHead],
    [name |-> NameB, type |-> "image/heif", size |-> MaxSizeGuarded + 1, head |-> Mif1Head],
    [name |-> NameC, type |-> "image/heic", size |-> MaxSizeFallback + 1, head |-> HeicHead] }

----------------------------------------------------------------------------
(* Error messages: a message is a sequence of text fragments. *)

TooLarge100 == "File too large. Please use files smaller than 100MB."
TooLarge50 == "File too large. Please use files smaller than 50MB."
NoWasm == "WebAssembly is not supported in this browser. Please use a modern browser like Chrome, Firefox, Safari, or Edge."
BothFailed == "Both conversion libraries failed. The file may be corrupted or use an unsupported HEIC variant."
HintValid == " Please ensure this is a valid HEIC/HEIF image file from an iPhone or compatible camera."
HintVariant == " This HEIC variant might not be supported by current conversion libraries."
HintWasm == " Please use a modern browser that supports WebAssembly (Chrome, Firefox, Safari, Edge)."
LoadFailed == "HEIC converter library failed to load properly"
NoOutput == "Conversion failed - no output generated"
InvalidResult == "Invalid conversion result"
FailedToConvert == "Failed to convert ${file.name}: "
\* texts raised outside the component
RawEnv == "raw: WebAssembly is not available"
RawVariant == "raw: unsupported HEIC variant"
RawTypeError == "raw: TypeError"

\* the words of String.includes() tests that occur in a fragment (case-sensitive)
Keywords(frag) ==
  CASE frag = NoWasm -> {"WebAssembly"}
    [] frag = BothFailed -> {"corrupted", "unsupported"}
    [] frag = HintWasm -> {"WebAssembly"}
    [] frag = RawEnv -> {"WebAssembly"}
    [] frag = RawVariant -> {"unsupported"}
    [] OTHER -> {}

Includes(msg, word) == \E k \in 1..Len(msg) : word \in Keywords(msg[k])


----------------------------------------------------------------------------
(* The decode libraries are external: an awaited import-and-decode settles  *)
(* with one of these results.                                              *)

Results == {"ok", "zeroBytes", "missing", "throwEnv", "throwVariant", "throwObject", "notFunction"}

\* results that are a thrown value (a rejected promise)
Thrown == {"throwEnv", "throwVariant", "throwObject"}

UnknownError == "Unknown error occurred"
RawObject == "raw: non-Error value"

\* the text of a value thrown by a library
RawText(res) ==
  CASE res = "throwEnv" -> RawEnv
    [] res = "throwVariant" -> RawVariant
    [] res = "throwObject" -> RawObject
    [] OTHER -> RawTypeError

\* the libraries of a revision, in the order the code tries them
Backends(r) == IF r = "fallback" THEN <<"heic-convert", "heic2any">> ELSE <<"heic2any">>

----------------------------------------------------------------------------
(* One activation of convertHeicToPng.                                     *)
(*   st        notStarted | await | returned | threw                       *)
(*   stage     index in Backends(rev) of the library being awaited         *)
(*   log       the libraries tried so far and how each attempt ended       *)
(*   bytesRead the file's content has been requested                       *)
(*   out       <<>> or the one ConvertedFile returned                      *)
(*   msg       the message of the Error thrown, when st = threw            *)
(*   fresh     log and msg are still held (the caller has not moved on)    *)

NotStarted ==
  [st |-> "notStarted", stage |-> 0, log |-> <<>>, bytesRead |-> FALSE,
   out |-> <<>>, msg |-> <<>>, fresh |-> TRUE]

Awaiting(k, read, log) ==
  [st |-> "await", stage |-> k, log |-> log, bytesRead |-> read,
   out |-> <<>>, msg |-> <<>>, fresh |-> TRUE]

Returned(k, file, log) ==
  [st |-> "returned", stage |-> k, log |-> log, bytesRead |-> TRUE,
   out |-> <<file>>, msg |-> <<>>, fresh |-> TRUE]

Threw(k, read, log, msg) ==
  [st |-> "threw", stage |-> k, log |-> log, bytesRead |-> read,
   out |-> <<>>, msg |-> msg, fresh |-> TRUE]

Attempt(r, k, res) ==
  [backend |-> Backends(r)[k], result |-> res, invoked |-> res # "notFunction"]

\* the guidance the outer catch of the "fallback" revision appends
Classify(msg) ==
  IF Includes(msg, "invalid") \/ Includes(msg, "corrupted") THEN msg \o <<HintValid>>
  ELSE IF Includes(msg, "unsupported") THEN msg \o <<HintVariant>>
  ELSE IF Includes(msg, "WebAssembly") THEN msg \o <<HintWasm>>
  ELSE msg

\* BeginFallback without its size check
BeginFallbackUnchecked(f) == Awaiting(1, TRUE, <<>>)

\* BeginFallback starting both libraries at once
BeginFallbackParallel(f) ==
  IF f.size > MaxSizeFallback
  THEN Threw(0, FALSE, <<>>, Classify(<<TooLarge100>>))
  ELSE Awaiting(2, TRUE, <<>>)

\* "fallback": from the call to the first await
BeginFallback(f) ==
  IF f.size > MaxSizeFallback
  THEN Threw(0, FALSE, <<>>, Classify(<<TooLarge100>>))
  ELSE Awaiting(1, TRUE, <<>>)

\* SettleFallback without the return after heic-convert succeeded
SettleFallbackNoReturn(f, a, res, u) ==
  LET log == Append(a.log, Attempt("fallback", a.stage, res))
  IN  IF a.stage = 1
      THEN Awaiting(2, TRUE, log)
      ELSE IF res = "ok"
      THEN Returned(a.stage, [name |-> DeriveName("fallback", f.name), url |-> u, blob |-> "nonempty"], log)
      ELSE Threw(2, TRUE, log, Classify(<<BothFailed>>))

\* SettleFallback without the inner try/catch around heic-convert
SettleFallbackEscape(f, a, res, u) ==
  LET log == Append(a.log, Attempt("fallback", a.stage, res))
  IN  IF res = "ok"
      THEN Returned(a.stage, [name |-> DeriveName("fallback", f.name), url |-> u, blob |-> "nonempty"], log)
      ELSE IF a.stage = 1 /\ res \in Thrown
      THEN Threw(1, TRUE, log, Classify(<<RawText(res)>>))
      ELSE IF a.stage = 1
      THEN Awaiting(2, TRUE, log)
      ELSE Threw(2, TRUE, log, Classify(<<BothFailed>>))

\* "fallback": the awaited library settles with res; u is the next object URL
SettleFallback(f, a, res, u) ==
  LET log == Append(a.log, Attempt("fallback", a.stage, res))
  IN  IF res = "ok"
      THEN Returned(a.stage, [name |-> DeriveName("fallback", f.name), url |-> u, blob |-> "nonempty"], log)
      ELSE IF a.stage = 1
      THEN Awaiting(2, TRUE, log)
      ELSE Threw(2, TRUE, log, Classify(<<BothFailed>>))

\* BeginGuarded with the ceiling itself rejected
BeginGuardedInclusive(w, f) ==
  IF ~w
  THEN Threw(0, FALSE, <<>>, <<FailedToConvert, NoWasm>>)
  ELSE IF f.size >= MaxSizeGuarded
  THEN Threw(0, FALSE, <<>>, <<FailedToConvert, TooLarge50>>)
  ELSE Awaiting(1, FALSE, <<>>)

\* "guarded": from the call to the first await
BeginGuarded(w, f) ==
  IF ~w
  THEN Threw(0, FALSE, <<>>, <<FailedToConvert, NoWasm>>)
  ELSE IF f.size > MaxSizeGuarded
  THEN Threw(0, FALSE, <<>>, <<FailedToConvert, TooLarge50>>)
  ELSE Awaiting(1, FALSE, <<>>)

\* "guarded": the awaited import and heic2any call settle with res
SettleGuarded(f, a, res, u) ==
  LET log == Append(a.log, Attempt("guarded", a.stage, res))
      read == res # "notFunction"
  IN  CASE res = "ok" ->
             Returned(1, [name |-> DeriveName("guarded", f.name), url |-> u, blob |-> "nonempty"], log)
        [] res = "notFunction" -> Threw(1, read, log, <<FailedToConvert, LoadFailed>>)
        [] res = "missing" -> Threw(1, read, log, <<FailedToConvert, NoOutput>>)
        [] res = "zeroBytes" -> Threw(1, read, log, <<FailedToConvert, InvalidResult>>)
        [] res = "throwObject" -> Threw(1, read, log, <<FailedToConvert, UnknownError>>)
        [] OTHER -> Threw(1, read, log, <<FailedToConvert, RawText(res)>>)

\* "basic": from the call to the first await
BeginBasic(f) == Awaiting(1, FALSE, <<>>)

\* "basic": the awaited import and heic2any call settle with res
SettleBasic(f, a, res, u) ==
  LET log == Append(a.log, Attempt("basic", a.stage, res))
      read == res # "notFunction"
  IN  CASE res = "ok" ->
             Returned(1, [name |-> DeriveName("basic", f.name), url |-> u, blob |-> "nonempty"], log)
        [] res = "zeroBytes" ->
             Returned(1, [name |-> DeriveName("basic", f.name), url |-> u, blob |-> "empty"], log)
        [] OTHER -> Threw(1, read, log, <<RawText(res)>>)

Begin(r, w, f) ==
  CASE r = "fallback" -> BeginFallback(f)
    [] r = "guarded" -> BeginGuarded(w, f)
    [] r = "basic" -> BeginBasic(f)

Settle(r, f, a, res, u) ==
  CASE r = "fallback" -> SettleFallback(f, a, res, u)
    [] r = "guarded" -> SettleGuarded(f, a, res, u)
    [] r = "basic" -> SettleBasic(f, a, res, u)

\* the caller moves on: the attempt records and the Error are dropped
Forget(a) == [a EXCEPT !.log = <<>>, !.msg = <<>>, !.fresh = FALSE]

----------------------------------------------------------------------------
(* One invocation of onDrop.                                               *)
(*   pc     idle (not yet invoked) | running | done                        *)
(*   files  acceptedFiles                                                  *)
(*   i      the index of the file the loop is converting (0 in "basic")    *)
(*   acts   the activation of convertHeicToPng for each file               *)
(*   successfulConversions, failedFiles: the locals of the loop; in        *)
(*          "basic", successfulConversions is the array Promise.all gave   *)
(*   alert  the alert the invocation raised                                *)

IdleCall ==
  [pc |-> "idle", files |-> <<>>, i |-> 0, acts |-> <<>>,
   successfulConversions |-> <<>>, failedFiles |-> <<>>, alert |-> "none"]

Sequential(r) == r \in {"fallback", "guarded"}

RECURSIVE DroppedUpTo(_, _)
DroppedUpTo(cs, n) == IF n = 0 THEN 0 ELSE Len(cs[n].files) + DroppedUpTo(cs, n - 1)

\* files handed to onDrop so far
Dropped == DroppedUpTo(calls, MaxCalls)

Settled(a) == a.st \in {"returned", "threw"}

Init ==
  /\ rev \in Revs
  /\ hasWasm \in (IF rev = "guarded" THEN BOOLEAN ELSE {TRUE})
  /\ convertedFiles = <<>>
  /\ isConverting = FALSE
  /\ nextUrl = 1
  /\ revoked = {}
  /\ calls = [c \in Calls |-> IdleCall]
  /\ offered = <<>>

\* onDrop(acceptedFiles), up to its first await
OnDrop(c, fs) ==
  /\ calls[c].pc = "idle"
  /\ c > 1 => calls[c - 1].pc # "idle"
  /\ Len(fs) <= MaxFiles - Dropped
  /\ IF Sequential(rev) /\ fs = <<>>
     THEN /\ calls' = [calls EXCEPT ![c] = [IdleCall EXCEPT !.pc = "done", !.alert = "selectValid"]]
          /\ UNCHANGED isConverting
     ELSE /\ isConverting' = TRUE
          /\ calls' = [calls EXCEPT ![c] =
               [IdleCall EXCEPT
                  !.pc = "running",
                  !.files = fs,
                  !.i = IF Sequential(rev) THEN 1 ELSE 0,
                  !.acts = [k \in 1..Len(fs) |->
                             IF Sequential(rev) /\ k > 1 THEN NotStarted
                             ELSE Begin(rev, hasWasm, fs[k])]]]
  /\ UNCHANGED <<rev, hasWasm, convertedFiles, nextUrl, revoked>>

\* the accept map of useDropzone: a MIME type or a file-name extension matches
AcceptProp(r, f) ==
  \/ f.type \in {"image/heic", "image/heif"}
  \/ Sequential(r) /\ f.type \in {"image/x-canon-cr2", "image/x-canon-crw"}
  \/ EndsWithI(f.name, DotHeic)
  \/ EndsWithI(f.name, DotHeif)

\* the validator of useDropzone returned null ("basic" passes none)
ValidatorPasses(r, f) ==
  Sequential(r) => (EndsWithI(f.name, DotHeic) \/ EndsWithI(f.name, DotHeif))

Accepts(r, f) == AcceptProp(r, f) /\ ValidatorPasses(r, f)

\* acceptedFiles: the offered files that pass, in the order offered
AcceptedFiles(r, fs) == SelectSeq(fs, LAMBDA f : Accepts(r, f))

\* the user offers files to the drop zone with the pointer; the zone takes
\* no pointer events while isConverting; it calls onDrop(acceptedFiles)
Drop(c, fs) ==
  /\ ~isConverting
  /\ OnDrop(c, AcceptedFiles(rev, fs))
  /\ offered' = fs

\* the user offers files through the file dialog, which the focused zone
\* opens on Enter or Space and which may have been open before a batch began
KeyDrop(c, fs) ==
  /\ OnDrop(c, AcceptedFiles(rev, fs))
  /\ offered' = fs

\* the library awaited by activation k of invocation c settles with res
SettleAct(c, k, res) ==
  /\ calls[c].pc # "idle"
  /\ k \in 1..Len(calls[c].acts)
  /\ calls[c].acts[k].st = "await"
  /\ LET a == Settle(rev, calls[c].files[k], calls[c].acts[k], res, nextUrl)
     IN  /\ calls' = [calls EXCEPT ![c].acts[k] = IF calls[c].pc = "done" THEN Forget(a) ELSE a]
         /\ nextUrl' = IF a.out # <<>> THEN nextUrl + 1 ELSE nextUrl
  /\ UNCHANGED <<rev, hasWasm, convertedFiles, isConverting, revoked>>
  /\ UNCHANGED offered

\* the file loop of onDrop resumes after `await convertHeicToPng(file)`
ResumeLoop(c) ==
  /\ Sequential(rev)
  /\ calls[c].pc = "running"
  /\ LET cl == calls[c]
         a == cl.acts[cl.i]
         succ == IF a.st = "returned" THEN Append(cl.successfulConversions, a.out[1])
                 ELSE cl.successfulConversions
         failed == IF a.st = "threw" THEN Append(cl.failedFiles, cl.files[cl.i].name)
                   ELSE cl.failedFiles
     IN  /\ Settled(a)
         /\ IF cl.i < Len(cl.files)
            THEN /\ calls' = [calls EXCEPT ![c] =
                      [cl EXCEPT !.successfulConversions = succ,
                                 !.failedFiles = failed,
                                 !.i = cl.i + 1,
                                 !.acts = [k \in 1..Len(cl.files) |->
                                            IF k = cl.i THEN Forget(a)
                                            ELSE IF k = cl.i + 1 THEN Begin(rev, hasWasm, cl.files[k])
                                            ELSE cl.acts[k]]]]
                 /\ UNCHANGED <<convertedFiles, isConverting>>
            ELSE /\ calls' = [calls EXCEPT ![c] =
                      [cl EXCEPT !.successfulConversions = succ,
                                 !.failedFiles = failed,
                                 !.acts[cl.i] = Forget(a),
                                 !.alert = IF failed = <<>> THEN "none"
                                           ELSE IF Len(failed) = Len(cl.files) THEN "failedAll"
                                           ELSE "failedSome",
                                 !.pc = "done"]]
                 /\ convertedFiles' = IF Len(succ) > 0 THEN convertedFiles \o succ ELSE convertedFiles
                 /\ isConverting' = FALSE
  /\ UNCHANGED <<rev, hasWasm, nextUrl, revoked>>
  /\ UNCHANGED offered

\* onDrop of "basic" resumes after `await Promise.all(...)`
ResumeAll(c) ==
  /\ rev = "basic"
  /\ calls[c].pc = "running"
  /\ LET cl == calls[c]
         n == Len(cl.files)
         rejected == \E k \in 1..n : cl.acts[k].st = "threw"
         fulfilled == \A k \in 1..n : cl.acts[k].st = "returned"
         results == [k \in 1..n |-> cl.acts[k].out[1]]
         acts == [k \in 1..n |-> IF Settled(cl.acts[k]) THEN Forget(cl.acts[k]) ELSE cl.acts[k]]
     IN  /\ rejected \/ fulfilled
         /\ IF fulfilled
            THEN /\ convertedFiles' = convertedFiles \o results
                 /\ calls' = [calls EXCEPT ![c] =
                      [cl EXCEPT !.successfulConversions = results, !.acts = acts, !.pc = "done"]]
            ELSE /\ UNCHANGED convertedFiles
                 /\ calls' = [calls EXCEPT ![c] =
                      [cl EXCEPT !.alert = "errorConverting", !.acts = acts, !.pc = "done"]]
         /\ isConverting' = FALSE
  /\ UNCHANGED <<rev, hasWasm, nextUrl, revoked>>
  /\ UNCHANGED offered

\* ClearFiles without the revokeObjectURL pass
ClearFilesNoRevoke ==
  /\ Len(convertedFiles) > 0
  /\ convertedFiles' = <<>>
  /\ UNCHANGED <<rev, hasWasm, isConverting, nextUrl, calls, revoked>>
  /\ UNCHANGED offered

\* the "Clear All" button, shown while convertedFiles is not empty
ClearFiles ==
  /\ Len(convertedFiles) > 0
  /\ revoked' = revoked \cup {convertedFiles[k].url : k \in 1..Len(convertedFiles)}
  /\ convertedFiles' = <<>>
  /\ UNCHANGED <<rev, hasWasm, isConverting, nextUrl, calls>>
  /\ UNCHANGED offered

\* what the alert of an invocation tells the user: the counts, the names of
\* the failed files and the kinds of their errors that its text carries
Report(cl) ==
  CASE cl.alert = "failedSome" ->
         [succeeded |-> <<Len(cl.successfulConversions)>>, failed |-> <<>>,
          names |-> cl.failedFiles, kinds |-> <<>>]
    [] OTHER ->
         [succeeded |-> <<>>, failed |-> <<>>, names |-> <<>>, kinds |-> <<>>]

Batches == SeqsUpTo(Files, MaxFiles)

Next ==
  \/ \E c \in Calls, fs \in Batches : Drop(c, fs)
  \/ \E c \in Calls, k \in 1..MaxFiles, res \in Results : SettleAct(c, k, res)
  \/ \E c \in Calls : ResumeLoop(c)
  \/ \E c \in Calls : ResumeAll(c)
  \/ ClearFiles

Spec == Init /\ [][Next]_vars

----------------------------------------------------------------------------
(* A library that never answers.  The awaits carry no timeout, so an       *)
(* awaited library either settles or stays pending for good; "hung" marks  *)
(* the second case.  The event loop runs a continuation once its promise   *)
(* has settled, and an attempt not hung settles: while such a step is      *)
(* possible, one is eventually taken.                                      *)

Hang(c, k) ==
  /\ calls[c].pc = "running"
  /\ k \in 1..Len(calls[c].acts)
  /\ calls[c].acts[k].st = "await"
  /\ calls' = [calls EXCEPT ![c].acts[k].st = "hung"]
  /\ UNCHANGED <<rev, hasWasm, convertedFiles, isConverting, nextUrl, revoked>>
  /\ UNCHANGED offered

\* one invocation of onDrop, with libraries that may hang
NextHang ==
  \/ \E fs \in Batches : Drop(1, fs)
  \/ \E k \in 1..MaxFiles, res \in Results : SettleAct(1, k, res)
  \/ ResumeLoop(1)
  \/ ResumeAll(1)
  \/ ClearFiles
  \/ \E k \in 1..MaxFiles : Hang(1, k)

\* a step of the event loop or of a library
Progress ==
  \/ ResumeLoop(1)
  \/ ResumeAll(1)
  \/ \E k \in 1..MaxFiles : (\E res \in Results : SettleAct(1, k, res)) \/ Hang(1, k)

Fairness == WF_vars(Progress)

FairSpec == Init /\ [][NextHang]_vars /\ Fairness

----------------------------------------------------------------------------
(* Invocations of onDrop that overlap: batches of at most one file, offered *)
(* through the file dialog.                                                *)

DialogBatches == SeqsUpTo({f \in Files : f.name = NameA}, 1)

NextOverlap ==
  \/ \E c \in Calls, fs \in DialogBatches : KeyDrop(c, fs)
  \/ \E c \in Calls, res \in Results : SettleAct(c, 1, res)
  \/ \E c \in Calls : ResumeLoop(c)
  \/ \E c \in Calls : ResumeAll(c)
  \/ ClearFiles

SpecOverlap == Init /\ [][NextOverlap]_vars

----------------------------------------------------------------------------
(* One file, of any name, type, size and content, offered once. *)

NameD == <<"c", ".", "h", "e", "i">>
NameE == <<"d", ".", "j", "p", "g">>
NameF == <<"e", ".", "h", "e", "i", "c", ".", "H", "E", "I", "F">>

\* 'ftyp' with a brand the libraries do not list
AvifHead == <<"0", "0", "0", "s", "f", "t", "y", "p", "a", "v", "i", "f">>
\* another box type in front of a HEIC brand
MoovHead == <<"0", "0", "0", "s", "m", "o", "o", "v", "h", "e", "i", "c">>
\* a file of ten bytes
ShortHead == <<"0", "1", "2", "3", "4", "5", "6", "7", "8", "9">>

PickSizes ==
  {2048, MaxSizeGuarded, MaxSizeGuarded + 1, MaxSizeFallback, MaxSizeFallback + 1}

PickFiles ==
  { [name |-> n, type |-> t, size |-> z, head |-> h] :
      n \in {NameA, NameB, NameC, NameD, NameE, NameF},
      t \in {"image/heic", ""},
      z \in PickSizes,
      h \in {HeicHead, Mif1Head, AvifHead, MoovHead} }
  \cup
  { [name |-> n, type |-> t, size |-> Len(ShortHead), head |-> ShortHead] :
      n \in {NameA, NameB, NameC, NameD, NameE, NameF},
      t \in {"image/heic", ""} }

NextPick ==
  \/ \E f \in PickFiles : Drop(1, <<f>>)
  \/ \E res \in Results : SettleAct(1, 1, res)
  \/ ResumeLoop(1)
  \/ ResumeAll(1)
  \/ ClearFiles

SpecPick == Init /\ [][NextPick]_vars

----------------------------------------------------------------------------
(* Vocabulary of the properties *)

\* the activations that exist: <<invocation, file index>>
Activations == {ck \in Calls \X (1..MaxFiles) : ck[2] <= Len(calls[ck[1]].acts)}

Act(ck) == calls[ck[1]].acts[ck[2]]
FileOf(ck) == calls[ck[1]].files[ck[2]]

\* the file exceeds the ceiling its revision configures ("basic" configures none)
Oversize(f) ==
  \/ rev = "fallback" /\ f.size > MaxSizeFallback
  \/ rev = "guarded" /\ f.size > MaxSizeGuarded

IsFileTooLarge(msg) == TooLarge100 \in Range(msg) \/ TooLarge50 \in Range(msg)

\* every library of the revision was tried and none produced a file
AllFailed(a) ==
  /\ a.fresh
  /\ a.st = "threw"
  /\ Len(a.log) = Len(Backends(rev))
  /\ \A j \in 1..Len(a.log) : a.log[j].result # "ok"

\* the failures an invocation reported: the names the loop collected, or the
\* one rejection the catch of "basic" received
ReportedFailed(cl) ==
  IF Sequential(rev) THEN Len(cl.failedFiles)
  ELSE IF cl.alert = "errorConverting" THEN 1 ELSE 0

\* the container signature of a file's first bytes: the brand at offset 8,
\* when the file has twelve bytes and 'ftyp' at offset 4, else "unknown"
Ftyp == <<"f", "t", "y", "p">>

Brands == {"heic", "heix", "hevc", "hevx", "mif1"}

BrandOf(b) ==
  CASE b = <<"h", "e", "i", "c">> -> "heic"
    [] b = <<"h", "e", "i", "x">> -> "heix"
    [] b = <<"h", "e", "v", "c">> -> "hevc"
    [] b = <<"h", "e", "v", "x">> -> "hevx"
    [] b = <<"m", "i", "f", "1">> -> "mif1"
    [] OTHER -> "unknown"

Signature(b) ==
  IF Len(b) >= 12 /\ SubSeq(b, 5, 8) = Ftyp THEN BrandOf(SubSeq(b, 9, 12)) ELSE "unknown"

\* the name the output is specified to get
ExpectedName(s) ==
  IF EndsWithI(s, DotHeic) \/ EndsWithI(s, DotHeif) THEN DropLast(s, 5) \o DotPng ELSE s

----------------------------------------------------------------------------
(* C1 *)

\* C1 (as amended): a file larger than the ceiling its revision configures is
\* rejected before any library is tried and before its bytes are requested;
\* the Error is the file-too-large one, except in the "guarded" revision
\* without WebAssembly, where the WebAssembly probe comes first and its Error
\* is the one thrown.
OversizeRejectedBeforeDecode ==
  \A ck \in Activations :
    (Act(ck).st # "notStarted" /\ Oversize(FileOf(ck))) =>
      /\ Act(ck).st = "threw"
      /\ ~Act(ck).bytesRead
      /\ Act(ck).fresh =>
           /\ Act(ck).log = <<>>
           /\ IF rev = "guarded" /\ ~hasWasm
              THEN NoWasm \in Range(Act(ck).msg) /\ ~IsFileTooLarge(Act(ck).msg)
              ELSE IsFileTooLarge(Act(ck).msg)

\* C1 (as stated): every oversize file is rejected with the file-too-large
\* Error, without a library being tried or bytes being read, whatever the
\* environment.
OversizeAlwaysFileTooLarge ==
  \A ck \in Activations :
    (Act(ck).st # "notStarted" /\ Oversize(FileOf(ck))) =>
      /\ Act(ck).st = "threw"
      /\ ~Act(ck).bytesRead
      /\ Act(ck).fresh => (Act(ck).log = <<>> /\ IsFileTooLarge(Act(ck).msg))

OversizeRejectedSeen ==
  \E ck \in Activations :
    /\ Oversize(FileOf(ck))
    /\ Act(ck).fresh
    /\ Act(ck).st = "threw"
    /\ IsFileTooLarge(Act(ck).msg)

----------------------------------------------------------------------------
(* C2 *)

\* C2: the libraries are tried in their fixed order, no attempt follows a
\* successful one, and a successful attempt makes the conversion return at
\* once with that attempt as the last one made.
FirstSuccessWins ==
  \A ck \in Activations :
    LET a == Act(ck)
    IN  /\ \A j \in 1..Len(a.log) : a.log[j].backend = Backends(rev)[j]
        /\ \A j \in 1..(Len(a.log) - 1) : a.log[j].result # "ok"
        /\ (a.fresh /\ a.st = "returned") => (Len(a.log) >= 1 /\ a.stage = Len(a.log))
        /\ (Len(a.log) >= 1 /\ a.log[Len(a.log)].result = "ok") => a.st = "returned"

\* the first library succeeded and the second one was never tried
SecondBackendSkipped ==
  \E ck \in Activations :
    /\ rev = "fallback"
    /\ Act(ck).st = "returned"
    /\ Len(Act(ck).log) = 1
    /\ Act(ck).log[1].result = "ok"

----------------------------------------------------------------------------
(* C4 *)

\* C4: a failed attempt never ends the conversion while a library is left
\* untried: after attempt j fails, library j+1 is awaited or has been tried,
\* and a conversion that throws after an attempt has tried every library.
BackendFailureContained ==
  \A ck \in Activations :
    LET a == Act(ck)
        n == Len(Backends(rev))
    IN  /\ (a.fresh /\ a.st = "threw" /\ Len(a.log) >= 1) => Len(a.log) = n
        /\ \A j \in 1..Len(a.log) :
             (j < n /\ a.log[j].result # "ok") =>
               (Len(a.log) > j \/ (a.st = "await" /\ a.stage = j + 1))

\* the first library threw and the second one was tried after it
FallbackAfterThrow ==
  \E ck \in Activations :
    /\ rev = "fallback"
    /\ Len(Act(ck).log) = 2
    /\ Act(ck).log[1].result \in Thrown
    /\ Act(ck).log[2].backend = "heic2any"

----------------------------------------------------------------------------
(* C3, C5 .. C10: statements the code does not meet *)

\* C3: when a batch is over, every file was attempted and the conversion of
\* every file that succeeded is among the batch's results.
BatchIsolation ==
  \A c \in Calls :
    calls[c].pc = "done" =>
      \A k \in 1..Len(calls[c].acts) :
        /\ calls[c].acts[k].st # "notStarted"
        /\ calls[c].acts[k].st = "returned" =>
             calls[c].acts[k].out[1] \in Range(calls[c].successfulConversions)

\* C5: a conversion that returns never returns an empty image.
SuccessIsNonEmpty ==
  \A ck \in Activations :
    Act(ck).st = "returned" => Act(ck).out[1].blob = "nonempty"

\* C6: when every library failed, the message of the Error carries the text
\* of each error a library threw.
AllFailMessageAggregates ==
  \A ck \in Activations :
    AllFailed(Act(ck)) =>
      \A j \in 1..Len(Act(ck).log) :
        Act(ck).log[j].result \in Thrown =>
          RawText(Act(ck).log[j].result) \in Range(Act(ck).msg)

\* C7: when every library failed and one of them failed for a missing
\* WebAssembly capability, the message is the WebAssembly one and not the
\* generic corrupted-or-unsupported one.
EnvironmentUnsupportedDominates ==
  \A ck \in Activations :
    (AllFailed(Act(ck)) /\ \E j \in 1..Len(Act(ck).log) : Act(ck).log[j].result = "throwEnv") =>
      /\ Includes(Act(ck).msg, "WebAssembly")
      /\ BothFailed \notin Range(Act(ck).msg)

\* C8: when a batch is over, its results hold the conversion of every file
\* that succeeded, in input order, and (where the code lists failures) the
\* name of every file that failed, in input order.
BatchOrderPreserved ==
  \A c \in Calls :
    calls[c].pc = "done" =>
      LET cl == calls[c]
          n == Len(cl.acts)
          ok == Ascending({k \in 1..n : cl.acts[k].st = "returned"}, n)
          ko == Ascending({k \in 1..n : cl.acts[k].st = "threw"}, n)
      IN  /\ cl.successfulConversions = [j \in 1..Len(ok) |-> cl.acts[ok[j]].out[1]]
          /\ Sequential(rev) => cl.failedFiles = [j \in 1..Len(ko) |-> cl.files[ko[j]].name]

\* C9: when a batch is over, the succeeded and failed counts add up to the
\* number of input files.
CountsAddUp ==
  \A c \in Calls :
    calls[c].pc = "done" =>
      Len(calls[c].successfulConversions) + ReportedFailed(calls[c]) = Len(calls[c].files)

\* C10: the name of a converted file is the input name with its trailing
\* .heic or .heif (any case) replaced by .png, and nothing else changed.
OutputNameAsSpecified ==
  \A ck \in Activations :
    Act(ck).st = "returned" => Act(ck).out[1].name = ExpectedName(FileOf(ck).name)

----------------------------------------------------------------------------
(* C11, C12: the signature of the bytes *)

\* the invocation started last (invocations start in index order)
Latest == Cardinality({c \in Calls : calls[c].pc # "idle"})

\* C11: a file whose first bytes carry no recognised signature is failed
\* before any library is tried: its conversion throws at once, with no
\* attempt made and no attempt pending.
UnknownSignatureRejected ==
  \A ck \in Activations :
    (Act(ck).st # "notStarted" /\ Signature(FileOf(ck).head) = "unknown") =>
      /\ Act(ck).st = "threw"
      /\ Act(ck).stage = 0
      /\ Act(ck).fresh => Act(ck).log = <<>>

\* C12: the format check classifies by content: of the files offered, the
\* ones passed on as HEIC/HEIF are exactly those with at least twelve bytes,
\* 'ftyp' at offset 4 and one of the five brands at offset 8; every other
\* file, a shorter one included, is classified unknown.
ClassifiedBySignature ==
  offered # <<>> =>
    calls[Latest].files = SelectSeq(offered, LAMBDA f : Signature(f.head) \in Brands)

----------------------------------------------------------------------------
(* C13 *)

\* the object URLs of the files on display
Held == {convertedFiles[k].url : k \in 1..Len(convertedFiles)}

\* C13: the step that clears the list leaves it empty with every URL it held
\* revoked, and no file on display ever carries a revoked URL.
ClearReleasesAll ==
  /\ [](Held \cap revoked = {})
  /\ [][(convertedFiles # <<>> /\ convertedFiles' = <<>>) => Held \subseteq revoked']_vars

\* files are on display again after an earlier list was cleared
DisplayAfterClear == revoked # {} /\ convertedFiles # <<>>

----------------------------------------------------------------------------
(* C14 *)

\* C14: every attempt ends, so a conversion whose library does not answer
\* still moves on, and every batch that started eventually has its outcome.
EveryBatchEnds == (calls[1].pc = "running") ~> (calls[1].pc = "done")

----------------------------------------------------------------------------
(* C15 *)

\* C15: when a batch ends with a failed file, the report carries the number
\* of files that succeeded, the number that failed, the name of every failed
\* file and an error kind for each of them.
FailureReportComplete ==
  \A c \in Calls :
    LET cl == calls[c]
        n == Len(cl.acts)
        ok == {k \in 1..n : cl.acts[k].st = "returned"}
        ko == Ascending({k \in 1..n : cl.acts[k].st = "threw"}, n)
    IN  (cl.pc = "done" /\ ko # <<>>) =>
          /\ Report(cl).succeeded = <<Cardinality(ok)>>
          /\ Report(cl).failed = <<Len(ko)>>
          /\ Report(cl).names = [j \in 1..Len(ko) |-> cl.files[ko[j]].name]
          /\ Len(Report(cl).kinds) = Len(ko)

----------------------------------------------------------------------------
(* C16 *)

\* C16: while a conversion awaits library k, libraries 1..k-1 are exactly the
\* ones tried so far, each of them has finished, and each finished without
\* producing a file.
AttemptsSequential ==
  \A ck \in Activations :
    LET a == Act(ck)
    IN  a.st = "await" =>
          /\ a.stage \in 1..Len(Backends(rev))
          /\ Len(a.log) = a.stage - 1
          /\ \A j \in 1..Len(a.log) :
               a.log[j].backend = Backends(rev)[j] /\ a.log[j].result # "ok"

\* the second library is awaited after the first one failed
SecondAwaited ==
  \E ck \in Activations :
    /\ Act(ck).st = "await"
    /\ Act(ck).stage = 2
    /\ Len(Act(ck).log) = 1

----------------------------------------------------------------------------
(* C17 *)

\* the ceiling a revision configures, as a set: "basic" configures none
Ceiling ==
  CASE rev = "fallback" -> {MaxSizeFallback}
    [] rev = "guarded" -> {MaxSizeGuarded}
    [] OTHER -> {}

\* the conversion went on to its libraries
Proceeded(a) == a.stage >= 1

\* C17 (as amended): the file-too-large Error is thrown only for a file
\* strictly larger than the ceiling; a file at the ceiling or below it never
\* gets that Error, and it proceeds to the libraries unless the WebAssembly
\* probe of the "guarded" revision has already failed it.
SizeBoundaryAfterProbe ==
  \A ck \in Activations :
    LET a == Act(ck)
        f == FileOf(ck)
    IN  a.st # "notStarted" =>
          /\ IsFileTooLarge(a.msg) => \E m \in Ceiling : f.size > m
          /\ (\A m \in Ceiling : f.size <= m) =>
               /\ ~IsFileTooLarge(a.msg)
               /\ (rev = "guarded" => hasWasm) => Proceeded(a)

\* C17 (as stated): a file at the ceiling or below it never gets the
\* file-too-large Error and always proceeds to the libraries.
SizeBoundaryAlwaysProceeds ==
  \A ck \in Activations :
    LET a == Act(ck)
        f == FileOf(ck)
    IN  a.st # "notStarted" =>
          /\ IsFileTooLarge(a.msg) => \E m \in Ceiling : f.size > m
          /\ (\A m \in Ceiling : f.size <= m) =>
               (~IsFileTooLarge(a.msg) /\ Proceeded(a))

\* a file of exactly the ceiling's size is being decoded
CeilingFileDecoded ==
  \E ck \in Activations :
    /\ FileOf(ck).size \in Ceiling
    /\ Act(ck).st = "await"

----------------------------------------------------------------------------
(* C18 *)

\* C18: deriving a name from a name the derivation produced changes nothing.
DeriveIdempotent ==
  \A ck \in Activations :
    Act(ck).st = "returned" =>
      DeriveName(rev, Act(ck).out[1].name) = Act(ck).out[1].name

\* a converted file got a name other than its input's
NameWasDerived ==
  \E ck \in Activations :
    /\ Act(ck).st = "returned"
    /\ Act(ck).out[1].name # FileOf(ck).name

----------------------------------------------------------------------------
(* C19 *)

\* the object URLs created so far
Created == 1..(nextUrl - 1)

\* C19: while no batch is in progress, every object URL created and not
\* revoked belongs to a file on display.
NoHandleLeak ==
  (\A c \in Calls : calls[c].pc # "running") => Created \ revoked \subseteq Held

----------------------------------------------------------------------------
(* C20 *)

\* C20: isConverting is true exactly while some invocation of onDrop is
\* processing files; an invocation with no files never makes it true.
IsConvertingTracksBatches ==
  isConverting <=> \E c \in Calls : calls[c].pc = "running" /\ calls[c].files # <<>>

----------------------------------------------------------------------------
(* C21 *)

\* the conversions of an invocation that succeeded, in input order
Wins(cl) ==
  LET n == Len(cl.acts)
      ok == Ascending({k \in 1..n : cl.acts[k].st = "returned"}, n)
  IN  [j \in 1..Len(ok) |-> cl.acts[ok[j]].out[1]]

\* C21: the step that finishes an invocation of onDrop leaves convertedFiles
\* as it was, followed by the invocation's successful conversions in input
\* order, and revokes nothing; with no successful conversion the list is
\* unchanged.
BatchOnlyAppends ==
  [][\A c \in Calls :
       (calls[c].pc = "running" /\ calls'[c].pc = "done") =>
         /\ convertedFiles' = convertedFiles \o Wins(calls[c])
         /\ revoked' = revoked]_vars

====
